---------------------------- MODULE Spec2Model ----------------------------
(***************************************************************************)
(* The worker-pool question/answer protocol of DirectLineBotClient         *)
(* (src/src/directline/directline_client.py): workers_processing fills an  *)
(* asyncio.Queue, n_workers worker coroutines run process_question for     *)
(* each item, listen_for_messages reads the conversation's websocket until *)
(* a non-user message arrives or the deadline passes, and the answers are  *)
(* appended to one shared list under answers_lock.                         *)
(*                                                                         *)
(* asyncio is cooperative: code between two awaits is one atomic step.     *)
(* Each action below is one such segment of one coroutine.                 *)
(***************************************************************************)
EXTENDS Integers, Sequences, FiniteSets, Bags, TLC

\* ------------------------------------------------------------------ bounds
MaxQuestions == 2
MaxWorkers == 2
\* frames without a bot message that the backend sends on one socket
MaxNoise == 1
MaxActs == 2
\* the importer: the largest api_limit, batch_size, number of records and
\* the number of runs of the importer
MaxApiLimit == 2
MaxBatchSize == 2
MaxRecords == 11
MaxRuns == 2
\* `batch_size * 10`: a commit every ten full batches
CommitBatches == 10
\* frames a connection queues before the listener's first recv()
MaxBuffered == 1
\* one second of wall-clock time is TicksPerSecond clock ticks
TicksPerSecond == 2
\* the per-question timeout (timeout=120 at process_question), scaled down
TimeoutSeconds == 1

\* ------------------------------------------------------------- the values
\* Python's None: the stop sentinel of the queue
None == "None"
QuestionTexts == {"q1", "q2"}
\* the input lists, up to renaming of the texts: the first text is "q1"
QuestionLists ==
  {l \in UNION {[1..n -> QuestionTexts] : n \in 0..MaxQuestions} :
     l = <<>> \/ l[1] = "q1"}

Min(a, b) == IF a <= b THEN a ELSE b

\* timeout=min(1.0, remaining_time): the cap of one receive attempt, in ticks
RecvCap == TicksPerSecond
\* timeout=120 in process_question, here TimeoutSeconds
Timeout == TimeoutSeconds * TicksPerSecond

\* What the backend can put into one activity of a frame: a typing indicator,
\* the echo of the question (role user), a bot reply, a message with no role.
Kinds == {"typing", "echo", "reply", "norole"}
KindSeqs == UNION {[1..n -> Kinds] : n \in 0..MaxActs}
BotKinds == {"reply", "norole"}

\* the role of an activity that has no "from"/"role"
Absent == "absent"
NoText == <<"none", 0, 0>>

\* The activity the backend puts on the wire of exchange x for a kind; k is
\* the serial number of a bot message within the exchange.
Activity(kind, x, k) ==
  CASE kind = "typing" -> [type |-> "typing", role |-> "bot", text |-> NoText]
    [] kind = "echo" -> [type |-> "message", role |-> "user", text |-> <<"echo", x, 0>>]
    [] kind = "reply" -> [type |-> "message", role |-> "bot", text |-> <<"reply", x, k>>]
    [] kind = "norole" -> [type |-> "message", role |-> Absent, text |-> <<"reply", x, k>>]

RECURSIVE CountBot(_)
CountBot(kinds) ==
  IF kinds = <<>> THEN 0
  ELSE (IF Head(kinds) \in BotKinds THEN 1 ELSE 0) + CountBot(Tail(kinds))

\* the activities list of a frame of exchange x that already carried n bot messages
RECURSIVE Activities(_, _, _)
Activities(kinds, x, n) ==
  IF kinds = <<>> THEN <<>>
  ELSE LET k == IF Head(kinds) \in BotKinds THEN n + 1 ELSE n
       IN <<Activity(Head(kinds), x, k)>> \o Activities(Tail(kinds), x, k)

\* The frames a socket can hand to recv(): enc is how the frame is encoded
\* (text, valid UTF-8 bytes, bytes that are not UTF-8), body what the text is
\* (not JSON, a JSON number, an object without "activities", an object with).
Frames ==
       {[enc |-> "badbytes", body |-> "notjson", kinds |-> <<>>]}
  \cup {[enc |-> e, body |-> b, kinds |-> <<>>] :
          e \in {"text", "bytes"}, b \in {"notjson", "number", "noact"}}
  \cup {[enc |-> e, body |-> "acts", kinds |-> ks] :
          e \in {"text", "bytes"}, ks \in KindSeqs}

VARIABLES
  questions,     \* df[question_column].to_list()
  n_workers,     \* the n_workers argument
  queue,         \* asyncio.Queue: its items
  unfinished,    \* asyncio.Queue._unfinished_tasks
  answers,       \* the shared answers list
  answers_lock,  \* asyncio.Lock: 0 when free, else the worker holding it
  dpc,           \* where workers_processing is
  di,            \* its loop index
  saved,         \* what became of the output file: "pending", then
                 \* "written", "skipped" or "ValueError"
  pc,            \* where each worker is
  question,      \* each worker's current question
  lis,           \* listen_for_messages' locals of each worker
  sock,          \* each worker's websocket: "none", "open", "closed"
  xid,           \* each worker's current exchange (index into exch)
  exch,          \* history: one record per dequeued question
  loc,           \* process_question's locals of each worker
  inbox,         \* the frames each websocket has received and not handed
                 \* to recv() yet
  \* ---- APIToSQLiteClient (src/src/db/client.py)
  ipc,           \* where the import is: "off", "new", "fetch", "records",
                 \* "advance", "flush", "ended", "failed", "closed"
  config,        \* api_limit, batch_size, total_records, and the number of
                 \* records the API holds
  checkpoint_file,        \* the offset in the checkpoint file, NoFile if none
  checkpoint_dictionary,  \* what __init__ loaded from the file, or NoFile
  offset,        \* api_data_generator's offset
  has_more_data, \* api_data_generator's has_more_data
  page,          \* data_array: its length and how many records are not
                 \* converted yet
  batch,         \* the length of _batch_generator's batch
  total_processed_records,  \* of _batch_insert_generator
  uncommitted,   \* rows inserted in the open transaction
  committed,     \* rows of committed transactions
  dropped,       \* records whose conversion failed
  runs           \* how many times the importer was started

\* the variables of the question dispatch
dlvars == <<questions, n_workers, queue, unfinished, answers, answers_lock, dpc,
            di, saved, pc, question, lis, sock, xid, exch, loc, inbox>>

\* the variables of the import
ivars == <<ipc, config, checkpoint_file, checkpoint_dictionary, offset,
           has_more_data, page, batch, total_processed_records, uncommitted,
           committed, dropped, runs>>

vars == <<dlvars, ivars>>

\* a pool with one worker task more than asked for
PoolSizePlusOne == n_workers + 1

\* [asyncio.create_task(self.worker(...)) for _ in range(n_workers)]
PoolSize == n_workers

Workers == 1..PoolSize

\* The backend issues a fresh token at every request and a fresh
\* conversation at every start: they are named after the exchange that
\* asked, n being the number of the token request within the exchange.
Token(x, n) == <<x, n>>
NoToken == <<0, 0>>
\* the payload of a started conversation; 0 stands for a missing key
Payloads == {"full", "noid", "nourl"}
Conversation(payload, x) ==
  [conversationId |-> IF payload = "noid" THEN 0 ELSE x,
   streamUrl |-> IF payload = "nourl" THEN 0 ELSE x]
NoConversation == [conversationId |-> 0, streamUrl |-> 0]

\* process_question's locals directline_token and conversation, and what
\* the flow did with them: the number of token requests, the token that
\* authorised the conversation start, the stream URL connected to, the
\* conversation posted to and the token that authorised the post
NoLoc == [directline_token |-> NoToken, conversation |-> NoConversation,
          tokens |-> 0, start_token |-> NoToken, socket_url |-> 0,
          send_to |-> 0, send_token |-> NoToken]

\* listen_for_messages' locals; `before` is the record of the frames that
\* earlier iterations of the loop received and skipped
NoLis == [elapsed |-> 0, over |-> FALSE, answers |-> <<>>, before |-> <<>>,
          first |-> "none"]

\* no checkpoint file (Path.exists() is false), checkpoint_dictionary None
NoFile == -1
NoPage == [len |-> 0, left |-> 0]

\* the importer as __init__ leaves it, for a configuration: an empty table,
\* no checkpoint file
Importer(cfg, at) ==
  /\ ipc = at
  /\ config = cfg
  /\ checkpoint_file = NoFile
  /\ checkpoint_dictionary = NoFile
  /\ offset = 0
  /\ has_more_data = TRUE
  /\ page = NoPage
  /\ batch = 0
  /\ total_processed_records = 0
  /\ uncommitted = 0
  /\ committed = 0
  /\ dropped = 0
  /\ runs = 0

\* the importer is not run
ImportOff ==
  Importer([api_limit |-> 1, batch_size |-> 1, total_records |-> 0, held |-> 0], "off")

\* workers_processing up to its first statement, for an input list and a
\* number of workers
Dispatch(lists, pools) ==
  /\ questions \in lists
  /\ n_workers \in pools
  /\ queue = <<>>
  /\ unfinished = 0
  /\ answers = <<>>
  /\ answers_lock = 0
  /\ dpc = "enqueue"
  /\ di = 1
  /\ saved = "pending"
  /\ pc = [w \in Workers |-> "new"]
  /\ question = [w \in Workers |-> None]
  /\ lis = [w \in Workers |-> NoLis]
  /\ sock = [w \in Workers |-> "none"]
  /\ xid = [w \in Workers |-> 0]
  /\ exch = <<>>
  /\ loc = [w \in Workers |-> NoLoc]
  /\ inbox = [w \in Workers |-> <<>>]

Init == Dispatch(QuestionLists, 1..MaxWorkers) /\ ImportOff

\* ------------------------------------------------------- asyncio.Queue
\* Queue.put / put_nowait: append and count the item as unfinished
put(q, item) == Append(q, item)

\* an acknowledgement that counts twice
task_done_twice(n) == n - 2

\* Queue.task_done: one unfinished task less
task_done(n) == n - 1

\* ------------------------------------------------ listen_for_messages
\* the deadline check with > for >=
TimedOutLate(elapsed) == elapsed > Timeout

\* over = elapsed_time >= timeout
TimedOut(elapsed) == elapsed >= Timeout

\* a receive attempt capped at one second only
RecvWaitUncapped(elapsed) == RecvCap

\* min(1.0, remaining_time): how long one receive attempt may wait
RecvWait(elapsed) == Min(RecvCap, Timeout - elapsed)

\* message.decode("utf-8") and json.loads(message): the exception raised, or
\* "ok" when data is a dict, "TypeError" when `"activities" in data` cannot be
\* evaluated (data is a JSON number)
Decode(frame) ==
  CASE frame.enc = "badbytes" -> "UnicodeDecodeError"
    [] frame.body = "notjson" -> "JSONDecodeError"
    [] frame.body = "number" -> "TypeError"
    [] OTHER -> "ok"

\* the inner try without its JSONDecodeError handler
InnerHandlerNoJson(exc) ==
  IF exc \in {"TimeoutError", "UnicodeDecodeError"} THEN "continue" ELSE "raise"

\* the inner try's handlers: TimeoutError, JSONDecodeError and
\* UnicodeDecodeError continue the loop, anything else leaves it
InnerHandler(exc) ==
  IF exc \in {"TimeoutError", "JSONDecodeError", "UnicodeDecodeError"}
  THEN "continue" ELSE "raise"

\* the outer try with only its ConnectionClosed handler
OuterHandlerClosedOnly(exc) ==
  IF exc = "ConnectionClosed" THEN "return"
  ELSE "raise"

\* the outer try's handlers: ConnectionClosed and Exception both end the
\* loop and fall through to `return answers`
OuterHandler(exc) ==
  IF exc = "ConnectionClosed" THEN "return"
  ELSE "return"

\* a missing role taken for the client's own
SenderRoleDefaultUser(activity) ==
  IF activity.role = Absent THEN "user" ELSE activity.role

\* activity.get("from", {}).get("role", "unknown")
SenderRole(activity) ==
  IF activity.role = Absent THEN "unknown" ELSE activity.role

\* the match without the test of the sender's role
IsAnswerAnyRole(activity) == activity.type = "message"

\* if activity.get("type") == "message": ... if sender_role != "user":
IsAnswer(activity) ==
  activity.type = "message" /\ SenderRole(activity) # "user"

\* the answer built from a question kept in shared state: the question of
\* the item dequeued last, by whichever worker
MakeAnswerShared(q, activity) ==
  [question |-> exch[Len(exch)].question, answer |-> activity.text]

\* {"question": question, "answer": message_text}
MakeAnswer(q, activity) == [question |-> q, answer |-> activity.text]

\* for activity in data["activities"]: the answers the loop appends
RECURSIVE Scan(_, _)
Scan(acts, q) ==
  IF acts = <<>> THEN <<>>
  ELSE (IF IsAnswer(Head(acts)) THEN <<MakeAnswer(q, Head(acts))>> ELSE <<>>)
       \o Scan(Tail(acts), q)

\* `while not over:` and the deadline check at the head of the loop: the
\* listener returns, or awaits the next recv()
LoopHead(l) ==
  IF l.over \/ TimedOut(l.elapsed) THEN "return" ELSE "recv"

\* The kind of the first activity of a frame that is a message of somebody
\* else than the user, "none" when the frame has no such activity.
RECURSIVE FirstBot(_)
FirstBot(kinds) ==
  IF kinds = <<>> THEN "none"
  ELSE IF Head(kinds) \in BotKinds THEN Head(kinds)
  ELSE FirstBot(Tail(kinds))

\* ---------------------------------------------------- process_question
\* a flow that records an empty answer row for a question without answer
ReturnedWithRow(l) ==
  IF l.answers = <<>> THEN <<[question |-> "q1", answer |-> NoText]>> ELSE l.answers

\* question_answers = await self.listen_for_messages(...): the returned list
Returned(l) == l.answers

\* a lock that is never seen as taken
lockedNever(lock) == FALSE

\* asyncio.Lock.locked(): acquire() goes through only when this is false
locked(lock) == lock # 0

\* a lock that stays with its holder
releaseKept(lock) == lock

\* asyncio.Lock.release() at the end of `async with answers_lock:`
release(lock) == 0

\* the shared list assigned instead of extended
ExtendOverwrite(shared, question_answers) == question_answers

\* answers.extend(question_answers)
Extend(shared, question_answers) == shared \o question_answers

\* an except clause of process_question that lets a failed send through to
\* the worker's own handler
CaughtAtWorker(stage) ==
  IF stage = "send" THEN "worker" ELSE "process_question"

\* `except Exception as e:` of process_question: where an exception raised at
\* a stage of the per-question flow is caught
CaughtAt(stage) == "process_question"

\* ------------------------------------------------- workers_processing
\* one sentinel too few
SentinelCountMinusOne == n_workers - 1

\* one sentinel too many
SentinelCountPlusOne == n_workers + 1

\* for _ in range(n_workers): await queue.put(item=None)
SentinelCount == n_workers

\* --------------------------------------------------------- the history
NewExchange(q, w) ==
  [question |-> q, worker |-> w, stage |-> "token", failed |-> FALSE,
   caught |-> "none", nbot |-> 0, outcome |-> "none", acked |-> FALSE]

\* workers run only while workers_processing is suspended in an await
Suspended == dpc \in {"join", "gather"}

dvars == <<questions, n_workers, answers, answers_lock, question, lis, sock,
           xid, exch, loc, inbox, ivars>>

\* ------------------------------------------- workers_processing (dispatch)
\* for question in questions: await queue.put(item=question)
put_question ==
  /\ dpc = "enqueue"
  /\ di <= Len(questions)
  /\ queue' = put(queue, questions[di])
  /\ unfinished' = unfinished + 1
  /\ di' = di + 1
  /\ UNCHANGED <<dvars, dpc, saved, pc>>

\* workers = [asyncio.create_task(self.worker(...)) for _ in range(n_workers)]
\* followed by `await queue.join()`, which lets the workers start
create_workers ==
  /\ dpc = "enqueue"
  /\ di > Len(questions)
  /\ pc' = [w \in Workers |-> "get"]
  /\ dpc' = "join"
  /\ UNCHANGED <<dvars, queue, unfinished, di, saved>>

\* a join that does not wait
JoinedAlways == TRUE

\* Queue.join: `if self._unfinished_tasks > 0: await self._finished.wait()`
Joined == unfinished = 0

\* await queue.join() returns once no task is unfinished
queue_join ==
  /\ dpc = "join"
  /\ Joined
  /\ dpc' = "sentinels"
  /\ di' = 1
  /\ UNCHANGED <<dvars, queue, unfinished, saved, pc>>

\* for _ in range(n_workers): await queue.put(item=None)
put_sentinel ==
  /\ dpc = "sentinels"
  /\ di <= SentinelCount
  /\ queue' = put(queue, None)
  /\ unfinished' = unfinished + 1
  /\ di' = di + 1
  /\ UNCHANGED <<dvars, dpc, saved, pc>>

\* await asyncio.gather(*workers): the dispatcher is suspended again
gather ==
  /\ dpc = "sentinels"
  /\ di > SentinelCount
  /\ dpc' = "gather"
  /\ UNCHANGED <<dvars, queue, unfinished, di, saved, pc>>

\* _df_save: `if answers is None: raise ValueError`, else the file is written
df_save(a, is_none) == IF is_none THEN "ValueError" ELSE "written"

\* if answers: self._df_save(answers, output_path); answers is the list
\* made at the top of workers_processing, never None
SaveResult(a) == IF a # <<>> THEN df_save(a, FALSE) ELSE "skipped"

\* gather returns when every worker task has finished;
\* if answers: self._df_save(answers, output_path)
save ==
  /\ dpc = "gather"
  /\ \A w \in Workers : pc[w] = "stopped"
  /\ saved' = SaveResult(answers)
  /\ dpc' = "done"
  /\ UNCHANGED <<dvars, queue, unfinished, di, pc>>

\* ------------------------------------------------------------- worker
wvars == <<questions, n_workers, dpc, di, saved, ivars>>

\* question = await queue.get(); a None item is acknowledged and ends the
\* worker, any other item starts process_question (up to its first await)
get(w) ==
  /\ Suspended
  /\ pc[w] = "get"
  /\ queue # <<>>
  /\ queue' = Tail(queue)
  /\ IF Head(queue) = None
     THEN /\ unfinished' = task_done(unfinished)
          /\ pc' = [pc EXCEPT ![w] = "stopped"]
          /\ UNCHANGED <<question, exch, xid, sock, lis, loc>>
     ELSE /\ question' = [question EXCEPT ![w] = Head(queue)]
          /\ loc' = [loc EXCEPT ![w] = NoLoc]
          /\ exch' = Append(exch, NewExchange(Head(queue), w))
          /\ xid' = [xid EXCEPT ![w] = Len(exch) + 1]
          /\ sock' = [sock EXCEPT ![w] = "none"]
          /\ lis' = [lis EXCEPT ![w] = NoLis]
          /\ pc' = [pc EXCEPT ![w] = "token"]
          /\ UNCHANGED unfinished
  /\ UNCHANGED <<wvars, inbox, answers, answers_lock>>

\* the failure path without its queue.task_done()
RaiseNoAck(w, stage) ==
  /\ exch' = [exch EXCEPT ![xid[w]].stage = stage, ![xid[w]].failed = TRUE,
                          ![xid[w]].caught = CaughtAt(stage)]
  /\ pc' = [pc EXCEPT ![w] = IF sock[w] = "open" THEN "close" ELSE "get"]
  /\ UNCHANGED unfinished

\* the failure path that leaves the `async with` block without closing
RaiseLeak(w, stage) ==
  /\ exch' = [exch EXCEPT ![xid[w]].stage = stage, ![xid[w]].failed = TRUE,
                          ![xid[w]].caught = CaughtAt(stage),
                          ![xid[w]].acked = TRUE]
  /\ pc' = [pc EXCEPT ![w] = "get"]
  /\ unfinished' = task_done(unfinished)

\* An exception raised at `stage` of process_question. With the socket open
\* the `async with connect(...)` block closes it first (an await); otherwise
\* the except clause runs at once, process_question returns and the worker
\* calls queue.task_done().
Raise(w, stage) ==
  /\ exch' = [exch EXCEPT ![xid[w]].stage = stage, ![xid[w]].failed = TRUE,
                          ![xid[w]].caught = CaughtAt(stage),
                          ![xid[w]].acked = (sock[w] # "open")]
  /\ IF sock[w] = "open"
     THEN /\ pc' = [pc EXCEPT ![w] = "close"]
          /\ UNCHANGED unfinished
     ELSE /\ pc' = [pc EXCEPT ![w] = "get"]
          /\ unfinished' = task_done(unfinished)

\* a flow whose connected socket goes straight to the listener
AdvanceSkipSend(w, next) ==
  /\ exch' = [exch EXCEPT ![xid[w]].stage = IF next = "send" THEN "listen" ELSE next]
  /\ pc' = [pc EXCEPT ![w] = IF next = "send" THEN "recv" ELSE next]
  /\ UNCHANGED unfinished

\* a step of process_question that succeeded and reached the next await
Advance(w, next) ==
  /\ exch' = [exch EXCEPT ![xid[w]].stage = next]
  /\ pc' = [pc EXCEPT ![w] = next]
  /\ UNCHANGED unfinished

\* session.post(url, headers=headers) of get_direct_line_token with status
\* 200: data.get("token"), the token the backend issues for this request
TokenRequest(l, x) == Token(x, l.tokens + 1)

\* directline_token = await self.get_direct_line_token()
get_direct_line_token(w) ==
  /\ Suspended
  /\ pc[w] = "token"
  /\ \E ok \in BOOLEAN :
       IF ok
       THEN /\ Advance(w, "conv_token")
            /\ loc' = [loc EXCEPT ![w].tokens = @ + 1,
                                  ![w].directline_token = TokenRequest(loc[w], xid[w])]
       ELSE /\ Raise(w, "token")
            /\ loc' = [loc EXCEPT ![w].tokens = @ + 1]
  /\ UNCHANGED <<wvars, inbox, queue, answers, answers_lock, question, lis, sock, xid>>

\* start_conversation: "Authorization": await self.get_direct_line_token()
start_conversation_token(w) ==
  /\ Suspended
  /\ pc[w] = "conv_token"
  /\ \E ok \in BOOLEAN :
       IF ok
       THEN /\ Advance(w, "start")
            /\ loc' = [loc EXCEPT ![w].tokens = @ + 1,
                                  ![w].start_token = TokenRequest(loc[w], xid[w])]
       ELSE /\ Raise(w, "conv_token")
            /\ loc' = [loc EXCEPT ![w].tokens = @ + 1]
  /\ UNCHANGED <<wvars, inbox, queue, answers, answers_lock, question, lis, sock, xid>>

\* start_conversation: the POST, authorised by the token just requested;
\* status 201 returns the payload as it came, and process_question goes on
\* to evaluate conversation['streamUrl'] (KeyError when the key is missing)
start_conversation(w) ==
  /\ Suspended
  /\ pc[w] = "start"
  /\ \E r \in {"fail"} \cup Payloads :
       IF r = "fail"
       THEN Raise(w, "start") /\ UNCHANGED loc
       ELSE /\ loc' = [loc EXCEPT ![w].conversation = Conversation(r, xid[w])]
            /\ IF Conversation(r, xid[w]).streamUrl = 0
               THEN Raise(w, "connect")
               ELSE Advance(w, "connect")
  /\ UNCHANGED <<wvars, inbox, queue, answers, answers_lock, question, lis, sock, xid>>

\* a pool that connects every question to the stream of the first conversation
StreamUrlShared(l) == IF l.conversation.streamUrl = 0 THEN 0 ELSE 1

\* conversation['streamUrl']
StreamUrl(l) == l.conversation.streamUrl

\* conversation['conversationId']
ConversationId(l) == l.conversation.conversationId

\* async with connect(conversation['streamUrl']) as websocket:
connect(w) ==
  /\ Suspended
  /\ pc[w] = "connect"
  /\ \E ok \in BOOLEAN :
       IF ok
       THEN /\ Advance(w, "send")
            /\ sock' = [sock EXCEPT ![w] = "open"]
            /\ loc' = [loc EXCEPT ![w].socket_url = StreamUrl(loc[w])]
       ELSE Raise(w, "connect") /\ UNCHANGED <<sock, loc>>
  /\ UNCHANGED <<wvars, inbox, queue, answers, answers_lock, question, lis, xid>>

\* What the record of skipped frames keeps of a frame.
Class(frame) ==
  [body |-> IF frame.enc = "badbytes" THEN "badbytes" ELSE frame.body,
   kinds |-> {frame.kinds[i] : i \in 1..Len(frame.kinds)}]

\* a frame that carries no bot message
Noise(frame) == CountBot(frame.kinds) = 0

\* The listener after one receive attempt that left its locals as l and
\* raised exc ("none": a frame was parsed and scanned); nb is the number of
\* bot messages the frame carried. Either the loop goes on to its head, or
\* the outer handlers end it and `return answers` runs, or the exception
\* leaves listen_for_messages.
AfterRecv(w, l, exc, nb) ==
  IF exc = "none" \/ InnerHandler(exc) = "continue"
  THEN /\ lis' = [lis EXCEPT ![w] = [l EXCEPT !.over = l.over \/ TimedOut(l.elapsed)]]
       /\ pc' = [pc EXCEPT ![w] = IF LoopHead(l) = "return" THEN "acquire" ELSE "recv"]
       /\ exch' = [exch EXCEPT ![xid[w]].nbot = @ + nb,
                               ![xid[w]].stage = "listen",
                               ![xid[w]].outcome =
                                  IF LoopHead(l) # "return" THEN "none"
                                  ELSE IF l.over THEN "matched" ELSE "timeout"]
       /\ UNCHANGED unfinished
  ELSE IF OuterHandler(exc) = "return"
  THEN /\ lis' = [lis EXCEPT ![w] = l]
       /\ pc' = [pc EXCEPT ![w] = "acquire"]
       /\ exch' = [exch EXCEPT ![xid[w]].stage = "listen",
                               ![xid[w]].outcome = exc]
       /\ UNCHANGED unfinished
  ELSE /\ lis' = [lis EXCEPT ![w] = l]
       /\ Raise(w, "listen")

\* a socket that forgets what arrived while nobody was receiving
PendingDropped(box) == <<>>

\* The websocket is connected before the question is posted and nothing
\* reads it until listen_for_messages calls recv(): what arrives in between
\* stays queued in the connection.
Pending(box) == box

\* The frames taken to arrive before the listener's first recv(): a text
\* frame with one activity of each kind. Once the listener receives, every
\* frame of Frames can arrive with no delay.
EarlyFrames ==
  {f \in Frames : f.enc = "text" /\ f.body = "acts" /\ Len(f.kinds) = 1}

\* The backend puts a frame on the socket of a worker whose post of the
\* question is in flight; the connection queues it.
deliver(w) ==
  /\ Suspended
  /\ pc[w] = "send"
  /\ sock[w] = "open"
  /\ Len(inbox[w]) < MaxBuffered
  /\ \E frame \in EarlyFrames :
       /\ Noise(frame) => Len(lis[w].before) + Len(inbox[w]) < MaxNoise
       /\ inbox' = [inbox EXCEPT ![w] = Append(@, frame)]
  /\ UNCHANGED <<wvars, queue, unfinished, answers, answers_lock, question,
                 lis, sock, xid, exch, loc, pc>>

\* await self._send_message(conversation['conversationId'], question,
\* directline_token): KeyError when the payload has no conversationId, else
\* the POST to the conversation, authorised by directline_token; then
\* listen_for_messages starts: answers = [], start_time = time.time(), and
\* the loop runs to its first recv()
send_message(w) ==
  /\ Suspended
  /\ pc[w] = "send"
  /\ IF ConversationId(loc[w]) = 0
     THEN Raise(w, "send") /\ UNCHANGED <<lis, loc>>
     ELSE /\ loc' = [loc EXCEPT ![w].send_to = ConversationId(loc[w]),
                                ![w].send_token = loc[w].directline_token]
          /\ \E ok \in BOOLEAN :
               IF ok
               THEN AfterRecv(w, NoLis, "none", 0)
               ELSE Raise(w, "send") /\ UNCHANGED lis
  /\ inbox' = [inbox EXCEPT ![w] = Pending(@)]
  /\ UNCHANGED <<wvars, queue, answers, answers_lock, question, sock, xid>>

\* asyncio.wait_for(websocket.recv(), ...) raises TimeoutError: no frame
\* arrived within min(1.0, remaining_time)
recv_timeout(w) ==
  /\ Suspended
  /\ pc[w] = "recv"
  /\ inbox[w] = <<>>
  /\ AfterRecv(w, [lis[w] EXCEPT !.elapsed = @ + RecvWait(@)], "TimeoutError", 0)
  /\ UNCHANGED <<wvars, inbox, queue, answers, answers_lock, question, sock, xid, loc>>

\* recv() returned frame d ticks into the wait: the frame is decoded, parsed
\* and its activities are scanned
Handle(w, frame, d) ==
  LET exc == Decode(frame)
      found == IF exc = "ok" /\ frame.body = "acts"
               THEN Scan(Activities(frame.kinds, xid[w], exch[xid[w]].nbot),
                         question[w])
               ELSE <<>>
      l == [elapsed |-> lis[w].elapsed + d,
            over |-> lis[w].over \/ found # <<>>,
            answers |-> lis[w].answers \o found,
            before |-> IF Noise(frame)
                       THEN Append(lis[w].before, Class(frame))
                       ELSE lis[w].before,
            first |-> IF exc = "ok" /\ frame.body = "acts"
                         /\ lis[w].first = "none"
                      THEN FirstBot(frame.kinds)
                      ELSE lis[w].first]
  IN AfterRecv(w, l, IF exc = "ok" THEN "none" ELSE exc,
               IF exc = "ok" THEN CountBot(frame.kinds) ELSE 0)

\* recv() returns a frame: at once the oldest frame the connection has
\* queued, otherwise a frame that arrives d ticks into the wait
recv_frame(w) ==
  /\ Suspended
  /\ pc[w] = "recv"
  /\ IF inbox[w] # <<>>
     THEN /\ Handle(w, Head(inbox[w]), 0)
          /\ inbox' = [inbox EXCEPT ![w] = Tail(@)]
     ELSE /\ \E frame \in Frames, d \in 0..(RecvWait(lis[w].elapsed) - 1) :
               /\ Noise(frame) => Len(lis[w].before) < MaxNoise
               /\ Handle(w, frame, d)
          /\ UNCHANGED inbox
  /\ UNCHANGED <<wvars, queue, answers, answers_lock, question, sock, xid, loc>>

\* recv() raises websockets.exceptions.ConnectionClosed: the peer closed
recv_closed(w) ==
  /\ Suspended
  /\ pc[w] = "recv"
  /\ inbox[w] = <<>>
  /\ AfterRecv(w, lis[w], "ConnectionClosed", 0)
  /\ UNCHANGED <<wvars, inbox, queue, answers, answers_lock, question, sock, xid, loc>>

\* recv() raises any other exception
recv_error(w) ==
  /\ Suspended
  /\ pc[w] = "recv"
  /\ inbox[w] = <<>>
  /\ AfterRecv(w, lis[w], "Exception", 0)
  /\ UNCHANGED <<wvars, inbox, queue, answers, answers_lock, question, sock, xid, loc>>

\* question_answers = <the list returned>; async with answers_lock: the
\* lock is taken when it is free. Of the listener's locals only the returned
\* list is left.
acquire(w) ==
  /\ Suspended
  /\ pc[w] = "acquire"
  /\ ~locked(answers_lock)
  /\ answers_lock' = w
  /\ lis' = [lis EXCEPT ![w] = [NoLis EXCEPT !.answers = Returned(lis[w])]]
  /\ pc' = [pc EXCEPT ![w] = "extend"]
  /\ UNCHANGED <<wvars, inbox, queue, unfinished, answers, question, sock, xid, exch, loc>>

\* answers.extend(question_answers), and the lock is released
extend(w) ==
  /\ Suspended
  /\ pc[w] = "extend"
  /\ answers' = Extend(answers, lis[w].answers)
  /\ answers_lock' = release(answers_lock)
  /\ pc' = [pc EXCEPT ![w] = "close"]
  /\ UNCHANGED <<wvars, inbox, queue, unfinished, question, lis, sock, xid, exch, loc>>

\* the `async with connect(...)` block is left: the websocket is closed,
\* process_question returns (through its except clause after a failure) and
\* the worker calls queue.task_done()
close(w) ==
  /\ Suspended
  /\ pc[w] = "close"
  /\ sock' = [sock EXCEPT ![w] = "closed"]
  /\ unfinished' = task_done(unfinished)
  /\ exch' = [exch EXCEPT ![xid[w]].acked = TRUE]
  /\ lis' = [lis EXCEPT ![w] = NoLis]
  /\ inbox' = [inbox EXCEPT ![w] = <<>>]
  /\ pc' = [pc EXCEPT ![w] = "get"]
  /\ UNCHANGED <<wvars, queue, answers, answers_lock, question, xid, loc>>

\* The worker's own `except Exception` (print "Worker error", task_done) is
\* never entered: process_question catches every Exception itself.

Next ==
  \/ put_question
  \/ create_workers
  \/ queue_join
  \/ put_sentinel
  \/ gather
  \/ save
  \/ \E w \in Workers : get(w)
  \/ \E w \in Workers : get_direct_line_token(w)
  \/ \E w \in Workers : start_conversation_token(w)
  \/ \E w \in Workers : start_conversation(w)
  \/ \E w \in Workers : connect(w)
  \/ \E w \in Workers : deliver(w)
  \/ \E w \in Workers : send_message(w)
  \/ \E w \in Workers : recv_timeout(w)
  \/ \E w \in Workers : recv_frame(w)
  \/ \E w \in Workers : recv_closed(w)
  \/ \E w \in Workers : recv_error(w)
  \/ \E w \in Workers : acquire(w)
  \/ \E w \in Workers : extend(w)
  \/ \E w \in Workers : close(w)

Spec == Init /\ [][Next]_vars

\* The event loop runs a coroutine that can run, and every network
\* operation ends (with a result or an exception).
FairSpec == Spec /\ WF_vars(Next)

\* ------------------------------------- null questions in the input list
\* df[question_column].to_list() of a column with empty cells: the lists
\* with at least one None
NullLists ==
  {l \in UNION {[1..n -> QuestionTexts \cup {None}] : n \in 1..MaxQuestions} :
     /\ \E i \in DOMAIN l : l[i] = None
     /\ \A i \in DOMAIN l : l[i] \in {None, "q1"}}

InitNull == Dispatch(NullLists, 1..MaxWorkers) /\ ImportOff

SpecNull == InitNull /\ [][Next]_vars

\* --------------------------------------------------- APIToSQLiteClient
\* the configurations of the importer and the number of records the API holds
Configs ==
  [api_limit : 1..MaxApiLimit, batch_size : 1..MaxBatchSize,
   total_records : 0..MaxRecords, held : 0..MaxRecords]

InitImport == Dispatch({<<>>}, {1}) /\ (\E cfg \in Configs : Importer(cfg, "new"))

\* if total_processed_records % (batch_size * 10) == 0
CommitDue(processed) == processed % (config.batch_size * CommitBatches) = 0

\* _batch_insert_generator for one batch of `size` rows: executemany, the
\* counters, the periodic commit; when executemany raises, rollback and the
\* exception leaves fetch_and_import_all_with_generator. `then` is where
\* the import goes on after a successful insert.
Insert(size, then) ==
  \E ok \in BOOLEAN :
     IF ok
     THEN /\ total_processed_records' = total_processed_records + size
          /\ IF CommitDue(total_processed_records + size)
             THEN /\ committed' = committed + uncommitted + size
                  /\ uncommitted' = 0
             ELSE /\ uncommitted' = uncommitted + size
                  /\ UNCHANGED committed
          /\ ipc' = then
     ELSE /\ uncommitted' = 0
          /\ ipc' = "failed"
          /\ UNCHANGED <<total_processed_records, committed>>

\* __init__ loads the checkpoint file; fetch_and_import_all_with_generator
\* begins the transaction and api_data_generator starts: without a loaded
\* checkpoint it saves offset 0, otherwise it takes the loaded offset
begin ==
  /\ ipc \in {"new", "closed"}
  /\ runs < MaxRuns
  /\ runs' = runs + 1
  /\ checkpoint_dictionary' = checkpoint_file
  /\ IF checkpoint_file = NoFile
     THEN checkpoint_file' = 0 /\ offset' = 0
     ELSE offset' = checkpoint_file /\ UNCHANGED checkpoint_file
  /\ has_more_data' = TRUE
  /\ page' = NoPage
  /\ batch' = 0
  /\ total_processed_records' = 0
  /\ ipc' = "fetch"
  /\ UNCHANGED <<dlvars, config, uncommitted, committed, dropped>>

\* while has_more_data and offset < total_records: _fetch_api_data(offset,
\* limit); None (a failed request) or an empty data array stops the
\* generator, otherwise the page is yielded
fetch ==
  /\ ipc = "fetch"
  /\ IF has_more_data /\ offset < config.total_records
     THEN \E ok \in BOOLEAN :
            LET n == Min(config.api_limit,
                         IF config.held > offset THEN config.held - offset ELSE 0)
            IN IF ok /\ n > 0
               THEN page' = [len |-> n, left |-> n] /\ ipc' = "records"
               ELSE page' = NoPage /\ ipc' = "flush"
     ELSE page' = NoPage /\ ipc' = "flush"
  /\ UNCHANGED <<dlvars, config, checkpoint_file, checkpoint_dictionary, offset,
                 has_more_data, batch, total_processed_records, uncommitted,
                 committed, dropped, runs>>

\* record_generator converts the next record of the page (a record that
\* fails is logged and left out); _batch_generator appends it and yields the
\* batch when it is full, and _batch_insert_generator inserts that batch
record ==
  /\ ipc = "records"
  /\ page.left > 0
  /\ page' = [page EXCEPT !.left = @ - 1]
  /\ LET then == IF page.left = 1 THEN "advance" ELSE "records"
     IN \E converted \in BOOLEAN :
          IF ~converted
          THEN /\ dropped' = dropped + 1
               /\ ipc' = then
               /\ UNCHANGED <<batch, total_processed_records, uncommitted, committed>>
          ELSE /\ UNCHANGED dropped
               /\ IF batch + 1 = config.batch_size
                  THEN batch' = 0 /\ Insert(batch + 1, then)
                  ELSE /\ batch' = batch + 1
                       /\ ipc' = then
                       /\ UNCHANGED <<total_processed_records, uncommitted, committed>>
  /\ UNCHANGED <<dlvars, config, checkpoint_file, checkpoint_dictionary, offset,
                 has_more_data, runs>>

\* self._save_checkpoint(offset=offset, ...): the offset written to the file
Checkpoint(next_offset) == next_offset

\* api_data_generator after its yield, when the next page is asked for: a
\* short page ends the loop, offset += limit, and the checkpoint is saved
save_checkpoint ==
  /\ ipc = "advance"
  /\ has_more_data' = (has_more_data /\ ~(page.len < config.api_limit))
  /\ offset' = offset + config.api_limit
  /\ checkpoint_file' = Checkpoint(offset + config.api_limit)
  /\ ipc' = "fetch"
  /\ UNCHANGED <<dlvars, config, checkpoint_dictionary, page, batch,
                 total_processed_records, uncommitted, committed, dropped, runs>>

\* the generators are exhausted: `if batch: yield batch` and its insert;
\* then _batch_insert_generator and fetch_and_import_all_with_generator
\* return, without a commit
flush ==
  /\ ipc = "flush"
  /\ batch' = 0
  /\ IF batch > 0
     THEN Insert(batch, "ended")
     ELSE /\ ipc' = "ended"
          /\ UNCHANGED <<total_processed_records, uncommitted, committed>>
  /\ UNCHANGED <<dlvars, config, checkpoint_file, checkpoint_dictionary, offset,
                 has_more_data, page, dropped, runs>>

\* main's finally: processor.close() closes the connection; sqlite3 drops
\* the rows of a transaction that was not committed
close_connection ==
  /\ ipc \in {"ended", "failed"}
  /\ uncommitted' = 0
  /\ ipc' = "closed"
  /\ UNCHANGED <<dlvars, config, checkpoint_file, checkpoint_dictionary, offset,
                 has_more_data, page, batch, total_processed_records, committed,
                 dropped, runs>>

NextImport ==
  \/ begin
  \/ fetch
  \/ record
  \/ save_checkpoint
  \/ flush
  \/ close_connection

SpecImport == InitImport /\ [][NextImport]_vars

\* ------------------------------------------------------------ properties
Exchanges == DOMAIN exch

\* the entries of the shared list whose answer is a text of exchange x
EntriesOf(x) == {i \in DOMAIN answers : answers[i].answer[2] = x}

Range(f) == {f[i] : i \in DOMAIN f}
BagOfSeq(f) == [e \in Range(f) |-> Cardinality({i \in DOMAIN f : f[i] = e})]

\* the question fields of the shared list
AnswerQuestions == [i \in DOMAIN answers |-> answers[i].question]

\* every input question got a conversation, and the backend delivered exactly
\* one bot message on each of them before the deadline
PromptBackend ==
  /\ Len(exch) = Len(questions)
  /\ \A x \in Exchanges : exch[x].nbot = 1

\* the list a listener of exchange x returns when n bot messages arrived
Delivered(x, n) ==
  [k \in 1..n |-> [question |-> exch[x].question, answer |-> <<"reply", x, k>>]]

\* C1: when the backend delivers exactly one bot reply to every conversation,
\* the finished dispatch leaves exactly one entry per input question in the
\* shared list, and the questions of the entries are the input questions as
\* a multiset, whatever the number of workers.
C1_OneEntryPerQuestion ==
  (dpc = "done" /\ PromptBackend) =>
     /\ Len(answers) = Len(questions)
     /\ BagOfSeq(AnswerQuestions) = BagOfSeq(questions)
     /\ \A x \in Exchanges : Cardinality(EntriesOf(x)) = 1

\* C1 witness: two equal questions, one worker, both answered
C1_Witness ==
  /\ dpc = "done"
  /\ PromptBackend
  /\ n_workers = 1
  /\ Len(questions) = 2
  /\ questions[1] = questions[2]
  /\ Len(answers) = 2

\* C2: a listener returns at most one answer, so the shared list never holds
\* more entries than questions were dequeued, and never more than the input.
C2_AtMostOneAnswer ==
  /\ \A w \in Workers : Len(lis[w].answers) <= 1
  /\ Len(answers) <= Len(exch)
  /\ Len(answers) <= Len(questions)

\* C3: dispatch terminates: whatever happened to each question, every
\* dequeued item is acknowledged, queue.join() returns and
\* workers_processing returns.
C3_Terminates ==
  <>(/\ dpc = "done"
     /\ unfinished = 0
     /\ Len(exch) = Len(questions)
     /\ \A x \in Exchanges : exch[x].acked)

\* C3 witness: a finished dispatch with a failed and a timed-out question
C3_Witness ==
  /\ dpc = "done"
  /\ \E x \in Exchanges : exch[x].failed
  /\ \E x \in Exchanges : exch[x].outcome = "timeout"

\* C4: a question that fails at token, start, connect or send is caught in
\* process_question, contributes no entry, and does not disturb the others:
\* every question is still dequeued, and every conversation that got its one
\* reply has its one entry.
C4_FailureIsolated ==
  /\ \A x \in Exchanges :
       exch[x].failed =>
         /\ EntriesOf(x) = {}
         /\ exch[x].caught = "process_question"
         /\ exch[x].stage \in {"token", "conv_token", "start", "connect", "send"}
  /\ \A w \in Workers :
       (xid[w] # 0 /\ exch[xid[w]].failed /\ exch[xid[w]].acked) =>
          pc[w] \in {"get", "stopped"}
  /\ dpc = "done" =>
       /\ Len(exch) = Len(questions)
       /\ \A x \in Exchanges : exch[x].nbot = 1 => Cardinality(EntriesOf(x)) = 1

\* C4 witness: the send of the first question failed and the same worker
\* then got the second question answered
C4_Witness ==
  /\ dpc = "done"
  /\ Len(exch) = 2
  /\ exch[1].failed
  /\ exch[1].stage = "send"
  /\ exch[2].worker = exch[1].worker
  /\ Cardinality(EntriesOf(2)) = 1

\* C5: a listener never waits past the deadline; with no bot message
\* delivered it returns the empty list, as a timeout exactly when the elapsed
\* time has reached the timeout; the question contributes no entry, and the
\* conversations that got their one reply still have their one entry.
C5_TimeoutIsEmpty ==
  /\ \A w \in Workers : pc[w] = "recv" => lis[w].elapsed < Timeout
  /\ \A w \in Workers :
       (pc[w] = "acquire" /\ exch[xid[w]].nbot = 0) =>
          /\ lis[w].answers = <<>>
          /\ ~exch[xid[w]].failed
          /\ (exch[xid[w]].outcome = "timeout") <=> (lis[w].elapsed >= Timeout)
  /\ \A x \in Exchanges : exch[x].nbot = 0 => EntriesOf(x) = {}
  /\ dpc = "done" =>
       \A x \in Exchanges :
          (exch[x].nbot = 1 /\ \E y \in Exchanges : exch[y].outcome = "timeout")
             => Cardinality(EntriesOf(x)) = 1

\* C5 witness: one question timed out, the other was answered
C5_Witness ==
  /\ dpc = "done"
  /\ \E x, y \in Exchanges :
       /\ exch[x].outcome = "timeout"
       /\ EntriesOf(x) = {}
       /\ exch[y].outcome = "matched"
       /\ Cardinality(EntriesOf(y)) = 1

\* C6: only message activities whose role is not "user" are recorded: no
\* entry carries the text of an echo or of a non-message activity, and the
\* list a listener returns is the list of the bot messages delivered to it.
C6_OnlyBotMessages ==
  /\ \A i \in DOMAIN answers : answers[i].answer[1] = "reply"
  /\ \A w \in Workers :
       /\ \A i \in DOMAIN lis[w].answers : lis[w].answers[i].answer[1] = "reply"
       /\ pc[w] = "acquire" =>
            lis[w].answers = Delivered(xid[w], exch[xid[w]].nbot)

\* C6 witness: a frame with the echo, then the reply: the reply is returned
C6_Witness ==
  \E w \in Workers :
    /\ pc[w] = "acquire"
    /\ lis[w].before = <<[body |-> "acts", kinds |-> {"echo"}]>>
    /\ lis[w].answers = Delivered(xid[w], 1)

SkippedBodies == {"noact", "badbytes", "notjson"}

\* C7: a frame without "activities", a frame that is not UTF-8 and a frame
\* that is not JSON leave the listener receiving, with no answer recorded and
\* nothing raised; a bot message that arrives after such a frame is matched.
C7_BadFramesSkipped ==
  /\ [][\A w \in Workers :
          (/\ pc[w] = "recv"
           /\ Len(lis'[w].before) = Len(lis[w].before) + 1
           /\ lis'[w].before[Len(lis'[w].before)].body \in SkippedBodies)
          => /\ pc'[w] = "recv"
             /\ lis'[w].answers = lis[w].answers
             /\ ~lis'[w].over
             /\ ~exch'[xid[w]].failed]_vars
  /\ [](\A w \in Workers :
          (/\ pc[w] = "acquire"
           /\ lis[w].before # <<>>
           /\ \A i \in DOMAIN lis[w].before : lis[w].before[i].body \in SkippedBodies
           /\ exch[xid[w]].nbot >= 1)
          => /\ exch[xid[w]].outcome = "matched"
             /\ lis[w].answers = Delivered(xid[w], exch[xid[w]].nbot))

\* C7 witness: a frame that is not JSON, then the reply, which is matched
C7_Witness ==
  \E w \in Workers :
    /\ pc[w] = "acquire"
    /\ lis[w].before = <<[body |-> "notjson", kinds |-> {}]>>
    /\ exch[xid[w]].outcome = "matched"
    /\ Len(lis[w].answers) = 1

ListenerExceptions == {"ConnectionClosed", "Exception", "TypeError"}

\* C8: no exception leaves the listener: on ConnectionClosed or any other
\* exception it stops receiving and returns the answers collected so far.
C8_ListenerNeverRaises ==
  /\ [](\A x \in Exchanges : exch[x].failed => exch[x].stage # "listen")
  /\ [][\A w \in Workers :
          (pc[w] = "recv" /\ exch'[xid[w]].outcome \in ListenerExceptions)
          => /\ pc'[w] = "acquire"
             /\ lis'[w].answers = lis[w].answers
             /\ ~exch'[xid[w]].failed]_vars

\* C8 witness: recv() raised an exception other than ConnectionClosed after
\* a frame was skipped, and the listener returned
C8_Witness ==
  \E w \in Workers :
    /\ pc[w] = "acquire"
    /\ exch[xid[w]].outcome = "Exception"
    /\ lis[w].before # <<>>
    /\ lis[w].answers = <<>>

\* C9: every entry of the shared list pairs a question with a reply that was
\* delivered on the socket of a conversation opened for that question; with
\* one reply per conversation the list holds exactly those pairs.
C9_NoCrossAttribution ==
  /\ \A i \in DOMAIN answers :
       LET x == answers[i].answer[2]
       IN /\ x \in Exchanges
          /\ answers[i].question = exch[x].question
          /\ answers[i].answer[1] = "reply"
          /\ answers[i].answer[3] \in 1..exch[x].nbot
  /\ (dpc = "done" /\ PromptBackend) =>
       Range(answers) = {Delivered(x, 1)[1] : x \in Exchanges}

\* C9 witness: two workers, two different questions, answered in the
\* opposite order
C9_Witness ==
  /\ dpc = "done"
  /\ PromptBackend
  /\ n_workers = 2
  /\ questions = <<"q1", "q2">>
  /\ Len(answers) = 2
  /\ answers[1].question = "q2"

\* C10: when dispatch returns every worker has stopped on a sentinel, as
\* many sentinels were enqueued as there are workers, and the queue holds
\* neither a sentinel nor a question.
C10_AllStopped ==
  dpc = "done" =>
     /\ \A w \in Workers : pc[w] = "stopped"
     /\ di - 1 = n_workers
     /\ queue = <<>>
     /\ unfinished = 0

\* C10 witness: a finished dispatch of two questions by two workers
C10_Witness ==
  /\ dpc = "done"
  /\ n_workers = 2
  /\ Len(questions) = 2
  /\ \A w \in Workers : pc[w] = "stopped"

\* ------------------------------------------------- properties of the pool
\* the exchanges whose queue item is not acknowledged yet
Unacked == {x \in Exchanges : ~exch[x].acked}

\* the questions put on the queue so far
Enqueued == SubSeq(questions, 1, IF dpc = "enqueue" THEN di - 1 ELSE Len(questions))

IsQuestion(item) == item # None
IsSentinel(item) == item = None

\* the questions dequeued so far, in the order of their dequeue
Dequeued == [x \in DOMAIN exch |-> exch[x].question]

\* the pcs of a worker inside process_question
InFlow == {"token", "conv_token", "start", "connect", "send", "recv",
           "acquire", "extend", "close"}

\* the sentinels enqueued so far: those still queued and those that
\* stopped a worker
SentinelsPut ==
  Len(SelectSeq(queue, IsSentinel)) + Cardinality({w \in Workers : pc[w] = "stopped"})

\* the workers whose socket is open
OpenSockets == {w \in Workers : sock[w] = "open"}

\* the position of a stage in process_question
StageIndex(stage) ==
  CASE stage = "token" -> 1
    [] stage = "conv_token" -> 2
    [] stage = "start" -> 3
    [] stage = "connect" -> 4
    [] stage = "send" -> 5
    [] stage = "listen" -> 6

\* C11: whatever the number of workers and the interleaving, every item put
\* on the queue is either still queued or was dequeued into exactly one
\* exchange run by exactly one worker, the unfinished count is the queued
\* items plus the dequeued items not yet acknowledged (so no item is
\* acknowledged twice and acknowledgements never exceed dequeues), and a
\* finished dispatch has dequeued and acknowledged every question once.
C11_ExactlyOnce ==
  /\ unfinished = Len(queue) + Cardinality(Unacked)
  /\ BagOfSeq(Dequeued \o SelectSeq(queue, IsQuestion)) = BagOfSeq(Enqueued)
  /\ \A x \in Exchanges :
       LET running == {w \in Workers : xid[w] = x /\ pc[w] \in InFlow}
       IN IF exch[x].acked THEN running = {} ELSE running = {exch[x].worker}
  /\ dpc = "done" => (Unacked = {} /\ Len(exch) = Len(questions))

\* C11 witness: one worker alone has dequeued, run and acknowledged every
\* question of the longest list
C11_Witness ==
  /\ dpc = "done"
  /\ n_workers = 1
  /\ Len(questions) = MaxQuestions
  /\ Len(exch) = MaxQuestions
  /\ \A x \in Exchanges : exch[x].acked /\ exch[x].worker = 1

\* C12: a batch that ends with no recorded answer makes persistence raise
\* ValueError instead of writing nothing.
C12_EmptyResultRaises ==
  (dpc = "done" /\ answers = <<>>) => saved = "ValueError"

\* C13: a worker that is not inside the `async with connect(...)` block of a
\* question (it waits for an item, has stopped, or has not connected yet)
\* holds no open socket, and an acknowledged exchange has none either.
C13_SocketClosedOnExit ==
  \A w \in Workers :
     /\ pc[w] \in {"new", "get", "stopped", "token", "conv_token", "start", "connect"}
          => sock[w] # "open"
     /\ (xid[w] # 0 /\ exch[xid[w]].acked) => sock[w] # "open"

\* C13 witness: a send failed with the socket open, and the worker is back
\* at the queue with that socket closed and the item acknowledged
C13_Witness ==
  \E w \in Workers :
     /\ pc[w] = "get"
     /\ xid[w] # 0
     /\ exch[xid[w]].failed
     /\ exch[xid[w]].stage = "send"
     /\ exch[xid[w]].acked
     /\ sock[w] = "closed"

\* C14: there are exactly n_workers worker tasks, and neither the number of
\* conversations in flight nor the number of open sockets exceeds n_workers.
C14_BoundedConcurrency ==
  /\ Cardinality(DOMAIN pc) = n_workers
  /\ Cardinality(Unacked) <= n_workers
  /\ Cardinality(OpenSockets) <= n_workers

\* C14 witness: the bound is attained, every worker of the largest pool has
\* its socket open
C14_Witness ==
  /\ n_workers = MaxWorkers
  /\ Cardinality(Unacked) = MaxWorkers
  /\ Cardinality(OpenSockets) = MaxWorkers

\* what C15 asks of every state
C15_OwnConversation ==
  /\ \A w \in Workers :
       /\ loc[w].conversation.conversationId \in {0, xid[w]}
       /\ loc[w].socket_url \in {0, xid[w]}
       /\ loc[w].send_to \in {0, xid[w]}
       /\ sock[w] = "open" =>
            /\ loc[w].socket_url = xid[w]
            /\ exch[xid[w]].worker = w
  /\ \A v, w \in Workers :
       (v # w /\ sock[v] = "open" /\ sock[w] = "open") =>
          loc[v].socket_url # loc[w].socket_url

\* what C15 asks of every step: the socket of a worker changes only in a
\* step of that worker
C15_OwnSocketStep ==
  \A w \in Workers :
     sock'[w] # sock[w] =>
        /\ pc'[w] # pc[w]
        /\ \A v \in Workers \ {w} : pc'[v] = pc[v] /\ sock'[v] = sock[v]

\* C15: every exchange connects to the stream of the conversation it started
\* itself and posts to that conversation, no two open sockets are on the same
\* stream, and a socket is opened, used and closed only by steps of the
\* worker that holds it.
C15_NoConversationReuse == []C15_OwnConversation /\ [][C15_OwnSocketStep]_vars

\* C15 witness: a worker that already ran the first exchange on a socket of
\* that conversation has the socket of its second conversation open
C15_Witness ==
  \E w \in Workers :
     /\ xid[w] = 2
     /\ exch[1].worker = w
     /\ exch[1].stage = "listen"
     /\ sock[w] = "open"
     /\ loc[w].socket_url = 2
     /\ loc[w].send_to = 2

\* C16: while a sentinel has been enqueued every question was dequeued and
\* acknowledged, at most n_workers sentinels are ever enqueued, and once the
\* dispatcher waits for its workers exactly n_workers were.
C16_SentinelsAfterJoin ==
  /\ SentinelsPut > 0 =>
       /\ Unacked = {}
       /\ Len(exch) = Len(questions)
       /\ SelectSeq(queue, IsQuestion) = <<>>
  /\ SentinelsPut <= n_workers
  /\ dpc \in {"gather", "done"} => SentinelsPut = n_workers

\* C16 witness: after a batch with questions, the largest pool has all its
\* sentinels queued
C16_Witness ==
  /\ dpc = "gather"
  /\ n_workers = MaxWorkers
  /\ Len(questions) > 0
  /\ Len(SelectSeq(queue, IsSentinel)) = MaxWorkers

\* C17: while a question is waiting to be enqueued, queued or not yet
\* acknowledged, no worker has stopped.
C17_NoEarlyStop ==
  (Len(Enqueued) < Len(questions) \/ SelectSeq(queue, IsQuestion) # <<>> \/ Unacked # {})
     => \A w \in Workers : pc[w] # "stopped"

\* C17 witness: one question is in flight and another is still queued, and
\* the worker tasks are all running
C17_Witness ==
  /\ Unacked # {}
  /\ SelectSeq(queue, IsQuestion) # <<>>
  /\ \A w \in Workers : pc[w] \in InFlow \cup {"get"}

\* C18: a frame that is valid JSON but no envelope (a JSON number) does not
\* end the listener: no listener returns because of the TypeError it causes.
C18_MalformedFrameNotFatal ==
  \A x \in Exchanges : exch[x].outcome # "TypeError"

\* what C19 asks of every state
C19_OrderedState ==
  \A w \in Workers : pc[w] \in InFlow =>
     /\ StageIndex(exch[xid[w]].stage) >= 2 <=> loc[w].directline_token # NoToken
     /\ StageIndex(exch[xid[w]].stage) >= 3 <=> loc[w].start_token # NoToken
     /\ StageIndex(exch[xid[w]].stage) >= 4 =>
          (~exch[xid[w]].failed => loc[w].conversation.streamUrl # 0)
     /\ sock[w] # "none" <=> loc[w].socket_url # 0
     /\ loc[w].socket_url # 0 => loc[w].conversation.streamUrl # 0
     /\ loc[w].send_to # 0 => sock[w] # "none"
     /\ pc[w] \in {"recv", "acquire", "extend"} =>
          (loc[w].send_to # 0 /\ exch[xid[w]].stage = "listen")

\* what C19 asks of every step: an exchange starts at the token request and
\* its stage moves one step at a time
C19_OrderedStep ==
  /\ \A x \in DOMAIN exch :
       StageIndex(exch'[x].stage) - StageIndex(exch[x].stage) \in {0, 1}
  /\ \A x \in DOMAIN exch' \ DOMAIN exch : exch'[x].stage = "token"

\* C19: within an exchange the token is held before the conversation is
\* started, the conversation is started before the socket is connected, the
\* socket is connected before the question is posted and the post succeeded
\* before the listener receives; the stage of an exchange never skips a step.
C19_StrictOrder == []C19_OrderedState /\ [][C19_OrderedStep]_vars

\* C19 witness: no order across questions - the exchange dequeued second is
\* already listening while the first one still waits for its token
C19_Witness ==
  /\ Len(exch) = 2
  /\ exch[1].stage = "token" /\ ~exch[1].failed
  /\ exch[2].stage = "listen"
  /\ \E w \in Workers : xid[w] = 2 /\ pc[w] = "recv"

\* C20: an exchange requests at most one token, and the token that
\* authorises the post of the question is the one that authorised the start
\* of the conversation.
C20_OneTokenPerConversation ==
  \A w \in Workers :
     /\ loc[w].tokens <= 1
     /\ loc[w].send_token # NoToken => loc[w].send_token = loc[w].start_token


\* what C21 asks of every state
C21_OneInSection ==
  /\ Cardinality({w \in Workers : pc[w] = "extend"}) <= 1
  /\ \A w \in Workers : (pc[w] = "extend") <=> (answers_lock = w)

\* what C21 asks of every step
C21_AppendUnderLock ==
  /\ Len(answers') >= Len(answers)
  /\ SubSeq(answers', 1, Len(answers)) = answers
  /\ answers' # answers =>
       /\ answers_lock \in Workers
       /\ pc[answers_lock] = "extend"
       /\ pc'[answers_lock] = "close"

\* C21: at most one worker is between the acquisition and the release of
\* answers_lock, that worker is the holder of the lock, the shared list
\* changes only in a step of the holder, and every change keeps the entries
\* the list already had, in place.
C21_SerialisedAppends == []C21_OneInSection /\ [][C21_AppendUnderLock]_vars

\* C21 witness: two listeners have returned an answer; one worker is in the
\* critical section and the other waits for the lock
C21_Witness ==
  \E v, w \in Workers :
     /\ pc[w] = "extend" /\ lis[w].answers # <<>>
     /\ pc[v] = "acquire" /\ lis[v].answers # <<>>

\* the payload of a conversation start that lacks one of its two keys
Incomplete(conversation) ==
  /\ conversation # NoConversation
  /\ conversation.conversationId = 0 \/ conversation.streamUrl = 0

\* C22: an exchange whose conversation start returned a payload without
\* conversation id or without stream URL connects no socket.
C22_IncompletePayloadNoSocket ==
  \A w \in Workers :
     Incomplete(loc[w].conversation) => (sock[w] = "none" /\ loc[w].socket_url = 0)

\* what C23 asks of every state
C23_WithinDeadline ==
  \A w \in Workers :
     /\ lis[w].elapsed <= Timeout
     /\ pc[w] = "recv" => lis[w].elapsed < Timeout

\* what C23 asks of every step
C23_CappedAttempt ==
  \A w \in Workers :
     (pc[w] = "recv" /\ pc'[w] \in {"recv", "acquire"}) =>
        lis'[w].elapsed - lis[w].elapsed
           \in 0..Min(TicksPerSecond, Timeout - lis[w].elapsed)

C24_FirstWins ==
  \A w \in Workers :
     (pc[w] = "acquire" /\ exch[xid[w]].outcome = "matched") =>
        lis[w].answers = Delivered(xid[w], 1)

C26_NullQuestionHarmless ==
  \A w \in Workers :
     pc[w] = "stopped" =>
        /\ SelectSeq(queue, IsQuestion) = <<>>
        /\ dpc # "join"

\* what C27 asks of every state
C27_QueuedOnOpenSocket ==
  \A w \in Workers :
     inbox[w] # <<>> =>
        /\ sock[w] = "open"
        /\ pc[w] \in {"send", "recv", "acquire", "extend", "close"}
        /\ pc[w] = "recv" => lis[w].elapsed = 0
        /\ pc[w] \in {"acquire", "extend"} => exch[xid[w]].outcome # "timeout"

\* what C27 asks of every step
C27_QueuedFrameReceived ==
  \A w \in Workers :
     /\ (pc[w] = "send" /\ pc'[w] = "recv") => inbox'[w] = inbox[w]
     /\ (pc[w] = "recv" /\ inbox[w] # <<>> /\ (lis'[w] # lis[w] \/ pc'[w] # pc[w])) =>
          /\ inbox'[w] = Tail(inbox[w])
          /\ FirstBot(Head(inbox[w]).kinds) # "none" =>
               /\ pc'[w] = "acquire"
               /\ exch'[xid[w]].outcome = "matched"
               /\ lis'[w].answers # <<>>

C28_NoLockDeadlock ==
  /\ [](\A w \in Workers : answers_lock = w => pc[w] = "extend")
  /\ \A w \in 1..MaxWorkers :
       (w \in Workers /\ pc[w] = "acquire") ~> (w \in Workers /\ pc[w] = "extend")

\* C28 witness: a worker waits for the lock that another worker holds
C28_Witness ==
  \E v, w \in Workers :
     /\ v # w
     /\ answers_lock = w
     /\ pc[v] = "acquire"

\* C29: the offset in the checkpoint file never exceeds the number of records
\* that are durable: committed to the table, or dropped at conversion.
C29_CheckpointBehindCommit ==
  checkpoint_file # NoFile => checkpoint_file <= committed + dropped


\* what C30 asks of every state
C30_NoEntryWithoutMatch ==
  \A x \in Exchanges : exch[x].outcome # "matched" => EntriesOf(x) = {}

\* what C30 asks of every step
C30_FailureFrame ==
  /\ answers' # answers =>
       \E w \in Workers : pc[w] = "extend" /\ exch[xid[w]].outcome = "matched"
  /\ \A x \in DOMAIN exch :
       (~exch[x].acked /\ exch'[x].acked) =>
          /\ unfinished' = unfinished - 1
          /\ queue' = queue
          /\ answers' = answers

\* C30: an exchange that ended without a match has no entry in the shared
\* list, the list changes only when a worker whose listener matched appends,
\* and the step that ends an exchange takes one from the unfinished count and
\* leaves the queue and the list as they are.
C30_FailureLeavesNoTrace == []C30_NoEntryWithoutMatch /\ [][C30_FailureFrame]_vars

\* C30 witness: of two finished exchanges the first timed out and the second
\* matched, and the list holds the entry of the second only
C30_Witness ==
  /\ dpc = "done"
  /\ Len(exch) = 2
  /\ exch[1].outcome = "timeout"
  /\ exch[2].outcome = "matched"
  /\ Len(answers) = 1
  /\ EntriesOf(2) = {1}

=============================================================================
